---- MODULE Spec2Model ----
(***************************************************************************)
(* Data catalog API: events, properties and tracking plans kept in a       *)
(* relational store, the three services over it, and the tracking-plan     *)
(* reconciliation (processTrackingPlanEvents) with its Promise.all fan-out.*)
(*                                                                         *)
(* A service call is a process in a slot.  Every store round trip of the   *)
(* call is one step: the query runs atomically in the store, and the code  *)
(* up to the next await of a store call runs with it.                      *)
(*                                                                         *)
(* Strings the code takes apart (entity names, error messages) are         *)
(* sequences of tokens, so that startsWith and split(':') are computed.    *)
(***************************************************************************)
EXTENDS Integers, Sequences, FiniteSets, TLC

VARIABLES
    db,      \* the store: tables events, properties, tracking_plans and the id sequences
    op,      \* op[c]: the service method running in slot c ("idle" when none)
    arg,     \* arg[c]: the call's arguments
    pc,      \* pc[c]: position of the call's main line
    loc,     \* loc[c]: the call's local variables
    task,    \* task[c]: state of every promise of the reconciliation fan-out
    res,     \* res[c]: the envelope returned by the call (when pc[c] = "done")
    hist,    \* hist[c]: what the call has done so far (store writes, snapshots)
    budget,  \* number of calls that may still be started
    faults   \* number of store failures the environment may still inject

vars == <<db, op, arg, pc, loc, task, res, hist, budget, faults>>

----------------------------------------------------------------------------
(* Bounds of the model *)

MaxCalls == 3

Slots == {1, 2}

----------------------------------------------------------------------------
(* Constants of the program *)

EVENT_TYPES == {"track", "identify", "alias", "screen", "page"}

PROPERTY_TYPES == {"string", "number", "boolean"}

EVENT_NOT_FOUND == "Event not found"

PROPERTY_NOT_FOUND == "Property not found"

TRACKING_PLAN_NOT_FOUND == "Tracking plan not found"

EVENT_ALREADY_EXISTS == "Event with this name and type already exists"

PROPERTY_ALREADY_EXISTS == "Property with this name and type already exists"

TRACKING_PLAN_ALREADY_EXISTS == "Tracking plan with this name already exists"

INTERNAL_ERROR == "Internal server error"

\* HTTP_STATUS_CODES
OK == 200

CREATED == 201

NOT_FOUND == 404

CONFLICT == 409

INTERNAL_SERVER_ERROR == 500

\* an optional field of an envelope that is absent
Undefined == "undefined"

\* the message of the store's unique-constraint failure
DuplicateKey == <<"duplicate key value violates unique constraint">>

----------------------------------------------------------------------------
(* Strings as token sequences *)

\* String.prototype.startsWith
StartsWith(s, prefix) ==
    /\ Len(s) >= Len(prefix)
    /\ SubSeq(s, 1, Len(prefix)) = prefix

\* index of the first ':' of s at or after position from, Len(s)+1 when none
RECURSIVE ColonFrom(_, _)
ColonFrom(s, from) ==
    IF from > Len(s) THEN Len(s) + 1
    ELSE IF s[from] = ":" THEN from
    ELSE ColonFrom(s, from + 1)

\* s.split(':')[1] for an s that contains a ':'
SplitColon1(s) ==
    LET first == ColonFrom(s, 1)
        second == ColonFrom(s, first + 1)
    IN SubSeq(s, first + 1, second - 1)

----------------------------------------------------------------------------
(* The store: tables with their constraints *)

\* knex .first(): one row of the result, or none
First(rows) == IF rows = {} THEN {} ELSE {CHOOSE r \in rows : TRUE}

\* the events and properties tables without their unique(['name', 'type'])
NoUniqueNameType(tbl, id, name, type) == FALSE

\* unique(['name', 'type']) of the events and properties tables: TRUE when a
\* row other than `id` already holds the key
UniqueNameTypeViolated(tbl, id, name, type) ==
    \E r \in tbl : r.id # id /\ r.name = name /\ r.type = type

\* the tracking_plans table without unique() on name
NoUniqueName(tbl, id, name) == FALSE

\* unique() of tracking_plans.name
UniqueNameViolated(tbl, id, name) ==
    \E r \in tbl : r.id # id /\ r.name = name

UniqueViolated(K, tbl, id, row) ==
    IF K = "tracking_plans" THEN UniqueNameViolated(tbl, id, row.name)
    ELSE UniqueNameTypeViolated(tbl, id, row.name, row.type)

\* the outcome of a repository call: it threw `error`, or returned `value`
\* (a set: empty for null) and left the store as `db`
Threw(d, msg) == [threw |-> TRUE, error |-> msg, value |-> {}, db |-> d]

Returned(d, v) == [threw |-> FALSE, error |-> <<>>, value |-> v, db |-> d]

\* a lookup by id that answers with some row of the table
findsAnyRow(d, K, id) == First(d[K])

\* repository.findById
findById(d, K, id) == {r \in d[K] : r.id = id}

\* a lookup by key that never finds a row
findsNothing(d, K, name, type) == {}

\* a lookup by name that takes a row of any type
findByNameOnly(d, K, name, type) == First({r \in d[K] : r.name = name})

\* EventRepository.findByNameAndType / PropertyRepository.findByNameAndType
findByNameAndType(d, K, name, type) ==
    First({r \in d[K] : r.name = name /\ r.type = type})

\* TrackingPlanRepository.findByName
findByName(d, name) == First({r \in d.tracking_plans : r.name = name})

\* orderBy('created_at', 'desc'): rows are stamped at insertion, so the
\* latest row is the one with the greatest id
RECURSIVE Ordered(_)
Ordered(rows) ==
    IF rows = {} THEN <<>>
    ELSE LET r == CHOOSE x \in rows : \A y \in rows : y.id <= x.id
         IN <<r>> \o Ordered(rows \ {r})

\* the rows findAll queries: where({type}) when a type is given
Filtered(rows, params) ==
    IF "type" \in DOMAIN params
    THEN {r \in rows : r.type = params.type} ELSE rows

\* const { page = 1, limit = 10 } = params
PageOf(params) == IF "page" \in DOMAIN params THEN params.page ELSE 1

LimitOf(params) == IF "limit" \in DOMAIN params THEN params.limit ELSE 10

\* findAll: count('* as count')
findAllCount(d, K, params) == Cardinality(Filtered(d[K], params))

\* a page query that ignores the offset
findAllFirstPage(d, K, params) ==
    LET all == Ordered(Filtered(d[K], params))
        last == IF LimitOf(params) < Len(all) THEN LimitOf(params) ELSE Len(all)
    IN SubSeq(all, 1, last)

\* findAll: orderBy('created_at', 'desc').limit(limit).offset(offset)
findAllPage(d, K, params) ==
    LET all == Ordered(Filtered(d[K], params))
        offset == (PageOf(params) - 1) * LimitOf(params)
        last == IF offset + LimitOf(params) < Len(all)
                THEN offset + LimitOf(params) ELSE Len(all)
    IN IF offset >= Len(all) THEN <<>> ELSE SubSeq(all, offset + 1, last)

\* the PaginatedResponse findAll returns
PaginatedResponse(items, params, total) ==
    [success |-> TRUE, data |-> items,
     pagination |-> [page |-> PageOf(params), limit |-> LimitOf(params),
                     total |-> total,
                     totalPages |-> (total + LimitOf(params) - 1)
                                        \div LimitOf(params)]]

\* a request is a record that holds exactly the fields the caller supplied:
\* req.f !== undefined
Supplied(req, f) == f \in DOMAIN req

\* the row an insert of `req` into table K produces
NewRow(K, id, req) ==
    IF K = "events"
    THEN [id |-> id, name |-> req.name, type |-> req.type,
          description |-> req.description]
    ELSE IF K = "properties"
    THEN [id |-> id, name |-> req.name, type |-> req.type,
          description |-> req.description,
          validation_rules |-> IF Supplied(req, "validation_rules")
                               THEN req.validation_rules ELSE "null"]
    ELSE [id |-> id, name |-> req.name, description |-> req.description,
          events |-> req.events]

\* repository.create: insert(...).returning('*')
create(d, K, req) ==
    LET id == d.seq[K]
        row == NewRow(K, id, req)
    IN IF UniqueViolated(K, d[K], id, row)
       THEN Threw(d, DuplicateKey)
       ELSE Returned([d EXCEPT ![K] = @ \cup {row}, !.seq[K] = @ + 1], {row})

\* an update that appends a supplied events list to the stored one
UpdatedRowMerging(row, req) ==
    [f \in DOMAIN row |->
        IF ~Supplied(req, f) THEN row[f]
        ELSE IF f = "events" THEN row[f] \o req[f]
        ELSE req[f]]

\* the row after update(updateData): only supplied fields change
UpdatedRow(row, req) ==
    [f \in DOMAIN row |-> IF Supplied(req, f) THEN req[f] ELSE row[f]]

\* repository.update: where({id}).update(updateData).returning('*')
update(d, K, id, req) ==
    LET old == findById(d, K, id)
    IN IF old = {} THEN Returned(d, {})
       ELSE LET o == CHOOSE r \in old : TRUE
                n == UpdatedRow(o, req)
            IN IF UniqueViolated(K, d[K], id, n)
               THEN Threw(d, DuplicateKey)
               ELSE Returned([d EXCEPT ![K] = (@ \ {o}) \cup {n}], {n})

\* a delete of a tracking plan that cascades to the events and properties
deleteCascading(d, K, id) ==
    LET old == findById(d, K, id)
    IN IF K = "tracking_plans" /\ old # {}
       THEN Returned([d EXCEPT ![K] = @ \ old, !.events = {},
                               !.properties = {}], {TRUE})
       ELSE Returned([d EXCEPT ![K] = @ \ old], {old # {}})

\* repository.delete: where({id}).del(); deletedRows > 0
delete(d, K, id) ==
    LET old == findById(d, K, id)
    IN Returned([d EXCEPT ![K] = @ \ old], {old # {}})

----------------------------------------------------------------------------
(* The response envelope *)

Envelope(success, data, error, message) ==
    [success |-> success, data |-> data, error |-> error, message |-> message]

Failure(error) == Envelope(FALSE, {}, error, <<>>)

\* a store failure reported as a missing row
createErrorResponseNotFound(errorMessage) == Failure(EVENT_NOT_FOUND)

createErrorResponse(errorMessage) ==
    Envelope(FALSE, {}, INTERNAL_ERROR, errorMessage)

handleAsyncOperation(r) ==
    IF r.threw THEN createErrorResponse(r.error)
    ELSE Envelope(TRUE, r.value, Undefined, <<>>)

handleAsyncOperationWithMessage(r, successMessage) ==
    IF r.threw THEN createErrorResponse(r.error)
    ELSE Envelope(TRUE, r.value, Undefined, successMessage)

handleAsyncOperationWithNullCheck(r, notFoundError) ==
    IF r.threw THEN createErrorResponse(r.error)
    ELSE IF r.value = {} THEN Failure(notFoundError)
    ELSE Envelope(TRUE, r.value, Undefined, <<>>)

handleAsyncOperationWithNullCheckAndMessage(r, notFoundError, successMessage) ==
    IF r.threw THEN createErrorResponse(r.error)
    ELSE IF r.value = {} THEN Failure(notFoundError)
    ELSE Envelope(TRUE, r.value, Undefined, successMessage)

\* a delete that reports success whatever repository.delete returned
handleBooleanOperationIgnored(r, notFoundError, successMessage) ==
    Envelope(TRUE, {}, Undefined, successMessage)

handleBooleanOperation(r, notFoundError, successMessage) ==
    IF r.threw THEN createErrorResponse(r.error)
    ELSE IF r.value = {FALSE} THEN Failure(notFoundError)
    ELSE Envelope(TRUE, {}, Undefined, successMessage)

----------------------------------------------------------------------------
(* Calls *)

NoLoc == [existing |-> {}, conflicting |-> {}, pending |-> {}, recon |-> {},
          total |-> 0, items |-> <<>>]

NoRes == Envelope(FALSE, {}, Undefined, <<>>)

\* the messages of the store failures the environment may inject
FaultMessages ==
    {<<"Database error">>, <<"EVENT_CONFLICT", ":", "connection lost">>}

\* what the next store call does: <<>> for the store's own answer, or the
\* message of an injected failure
FaultOutcomes == IF faults > 0 THEN {<<>>} \cup FaultMessages ELSE {<<>>}

StoreCall(f, r) == IF f = <<>> THEN r ELSE Threw(db, f)

Spend(f) == faults' = IF f = <<>> THEN faults ELSE faults - 1

\* the record of a write the call issued to the store
Write(K, method, id, name, type, by, r) ==
    [table |-> K, method |-> method, id |-> id, name |-> name, type |-> type,
     by |-> by, ok |-> ~r.threw]

Logged(c, w) == [hist EXCEPT ![c].writes = @ \cup {w}]

\* the call returns envelope e
Return(c, e) ==
    /\ pc' = [pc EXCEPT ![c] = "done"]
    /\ res' = [res EXCEPT ![c] = e]

Goto(c, label) ==
    /\ pc' = [pc EXCEPT ![c] = label]
    /\ UNCHANGED res

Main == <<0, 0>>

----------------------------------------------------------------------------
(* EventService and PropertyService: the same code over two tables *)

TableOf(o) ==
    IF o \in {"createEvent", "updateEvent", "deleteEvent"} THEN "events"
    ELSE IF o \in {"createProperty", "updateProperty", "deleteProperty"}
    THEN "properties"
    ELSE "tracking_plans"

NotFoundOf(K) ==
    IF K = "events" THEN EVENT_NOT_FOUND
    ELSE IF K = "properties" THEN PROPERTY_NOT_FOUND
    ELSE TRACKING_PLAN_NOT_FOUND

AlreadyExistsOf(K) ==
    IF K = "events" THEN EVENT_ALREADY_EXISTS
    ELSE IF K = "properties" THEN PROPERTY_ALREADY_EXISTS
    ELSE TRACKING_PLAN_ALREADY_EXISTS

Created(K) ==
    IF K = "events" THEN <<"Event created successfully">>
    ELSE IF K = "properties" THEN <<"Property created successfully">>
    ELSE <<"Tracking plan created successfully">>

Updated(K) ==
    IF K = "events" THEN <<"Event updated successfully">>
    ELSE IF K = "properties" THEN <<"Property updated successfully">>
    ELSE <<"Tracking plan updated successfully">>

Deleted(K) ==
    IF K = "events" THEN <<"Event deleted successfully">>
    ELSE IF K = "properties" THEN <<"Property deleted successfully">>
    ELSE <<"Tracking plan deleted successfully">>

\* a supplied name or type that is not the empty string
TruthyName(req) == Supplied(req, "name") /\ req.name # <<>>

TruthyType(req) == Supplied(req, "type") /\ req.type # ""

\* createEvent / createProperty: await findByNameAndType, then the check
createFind(c, K) ==
    /\ pc[c] = "find"
    /\ \E f \in FaultOutcomes :
         LET r == StoreCall(f, Returned(db,
                      findByNameAndType(db, K, arg[c].data.name, arg[c].data.type)))
         IN /\ Spend(f)
            /\ IF r.threw THEN Return(c, createErrorResponse(r.error))
               ELSE IF r.value # {} THEN Return(c, Failure(AlreadyExistsOf(K)))
               ELSE Goto(c, "create")
    /\ UNCHANGED <<db, op, arg, loc, task, hist, budget>>

\* createEvent / createProperty: await repository.create
createInsert(c, K) ==
    /\ pc[c] = "create"
    /\ \E f \in FaultOutcomes :
         LET r == StoreCall(f, create(db, K, arg[c].data))
         IN /\ Spend(f)
            /\ db' = r.db
            /\ hist' = Logged(c, Write(K, "create", 0, arg[c].data.name,
                                       arg[c].data.type, Main, r))
            /\ Return(c, handleAsyncOperationWithMessage(r, Created(K)))
    /\ UNCHANGED <<op, arg, loc, task, budget>>

\* the checks of an update that takes any row found under the looked-up
\* key for a collision, the row being updated included
updateChecksAnyRow(c, K, existing, conflicting) ==
    IF existing = {} THEN Return(c, Failure(NotFoundOf(K)))
    ELSE IF /\ TruthyName(arg[c].data) \/ TruthyType(arg[c].data)
            /\ conflicting # {}
    THEN Return(c, Failure(AlreadyExistsOf(K)))
    ELSE Goto(c, "update")

\* the checks of updateEvent / updateProperty once Promise.all of the two
\* lookups has resolved
updateChecks(c, K, existing, conflicting) ==
    LET req == arg[c].data
        e == CHOOSE r \in existing : TRUE
        newName == IF TruthyName(req) THEN req.name ELSE e.name
        newType == IF TruthyType(req) THEN req.type ELSE e.type
    IN IF existing = {} THEN Return(c, Failure(NotFoundOf(K)))
       ELSE IF /\ TruthyName(req) \/ TruthyType(req)
               /\ newName # e.name \/ newType # e.type
               /\ \E x \in conflicting : x.id # arg[c].id
       THEN Return(c, Failure(AlreadyExistsOf(K)))
       ELSE Goto(c, "update")

\* updateEvent / updateProperty: one of the two lookups of Promise.all
\* completes: findById(id), or findByNameAndType(name || '', type || '')
updateLookup(c, K, which) ==
    /\ pc[c] = "lookups"
    /\ which \in loc[c].pending
    /\ \E f \in FaultOutcomes :
         LET req == arg[c].data
             found == IF which = "byId" THEN findById(db, K, arg[c].id)
                      ELSE findByNameAndType(db, K,
                               IF TruthyName(req) THEN req.name ELSE <<>>,
                               IF TruthyType(req) THEN req.type ELSE "")
             r == StoreCall(f, Returned(db, found))
             left == loc[c].pending \ {which}
             existing == IF which = "byId" THEN r.value ELSE loc[c].existing
             conflicting == IF which = "byKey" THEN r.value
                            ELSE loc[c].conflicting
         IN /\ Spend(f)
            /\ loc' = [loc EXCEPT ![c].pending = IF r.threw THEN {} ELSE left,
                                  ![c].existing = existing,
                                  ![c].conflicting = conflicting]
            /\ IF r.threw THEN Return(c, createErrorResponse(r.error))
               ELSE IF left # {} THEN Goto(c, "lookups")
               ELSE updateChecks(c, K, existing, conflicting)
    /\ UNCHANGED <<db, op, arg, task, hist, budget>>

\* updateEvent / updateProperty: await repository.update
updateWrite(c, K) ==
    /\ pc[c] = "update"
    /\ \E f \in FaultOutcomes :
         LET r == StoreCall(f, update(db, K, arg[c].id, arg[c].data))
         IN /\ Spend(f)
            /\ db' = r.db
            /\ hist' = Logged(c, Write(K, "update", arg[c].id, <<>>, "", Main, r))
            /\ Return(c, handleAsyncOperationWithNullCheckAndMessage(
                             r, NotFoundOf(K), Updated(K)))
    /\ UNCHANGED <<op, arg, loc, task, budget>>

\* deleteEvent / deleteProperty / deleteTrackingPlan: await findById
deleteFind(c, K) ==
    /\ pc[c] = "find"
    /\ \E f \in FaultOutcomes :
         LET r == StoreCall(f, Returned(db, findById(db, K, arg[c].id)))
         IN /\ Spend(f)
            /\ IF r.threw THEN Return(c, createErrorResponse(r.error))
               ELSE IF r.value = {} THEN Return(c, Failure(NotFoundOf(K)))
               ELSE Goto(c, "delete")
    /\ UNCHANGED <<db, op, arg, loc, task, hist, budget>>

\* deleteEvent / deleteProperty / deleteTrackingPlan: await repository.delete
deleteWrite(c, K) ==
    /\ pc[c] = "delete"
    /\ \E f \in FaultOutcomes :
         LET r == StoreCall(f, delete(db, K, arg[c].id))
         IN /\ Spend(f)
            /\ db' = r.db
            /\ hist' = Logged(c, Write(K, "delete", arg[c].id, <<>>, "", Main, r))
            /\ Return(c, handleBooleanOperation(r, NotFoundOf(K), Deleted(K)))
    /\ UNCHANGED <<op, arg, loc, task, budget>>

\* getEventById / getPropertyById / getTrackingPlanById
getById(c, K) ==
    /\ pc[c] = "get"
    /\ \E f \in FaultOutcomes :
         LET r == StoreCall(f, Returned(db, findById(db, K, arg[c].id)))
         IN /\ Spend(f)
            /\ Return(c, handleAsyncOperationWithNullCheck(r, NotFoundOf(K)))
    /\ UNCHANGED <<db, op, arg, loc, task, hist, budget>>

\* getEvents / getProperties / getTrackingPlans: one of the two queries of
\* repository.findAll completes. EventRepository awaits the count before
\* it issues the page query; PropertyRepository and TrackingPlanRepository
\* issue both in one Promise.all.
findAll(c, K, which) ==
    /\ pc[c] = "list"
    /\ which \in loc[c].pending
    /\ (K = "events" /\ which = "page") => "count" \notin loc[c].pending
    /\ \E f \in FaultOutcomes :
         LET params == arg[c].data
             r == StoreCall(f, Returned(db, {}))
             left == loc[c].pending \ {which}
             total == IF which = "count" THEN findAllCount(db, K, params)
                      ELSE loc[c].total
             items == IF which = "page" THEN findAllPage(db, K, params)
                      ELSE loc[c].items
         IN /\ Spend(f)
            /\ loc' = [loc EXCEPT ![c].pending = IF r.threw THEN {} ELSE left,
                                  ![c].total = IF r.threw THEN @ ELSE total,
                                  ![c].items = IF r.threw THEN @ ELSE items]
            /\ IF r.threw THEN Return(c, handleAsyncOperation(r))
               ELSE IF left # {} THEN Goto(c, "list")
               ELSE Return(c, handleAsyncOperation(Returned(db,
                               {PaginatedResponse(items, params, total)})))
    /\ UNCHANGED <<db, op, arg, task, hist, budget>>

----------------------------------------------------------------------------
(* TrackingPlanService: processTrackingPlanEvents, the Promise.all fan-out *)

\* One promise per event, <<i, 0>>, and one per property j of event i, <<i, j>>.
\* st: "idle" (not started), "lookup" (awaiting findByNameAndType), "create"
\* (awaiting repository.create), "props" (an event awaiting its properties),
\* "done" (fulfilled), "failed" (rejected).  row: the resolved row.
TaskIds(evs) ==
    UNION {{<<i, j>> : j \in 0..Len(evs[i].properties)} : i \in 1..Len(evs)}

NoTasks == [t \in {} |-> [st |-> "idle", row |-> {}]]

\* events.map(async (event) => ...): every event's lookup is issued
FanOut(evs) ==
    [t \in TaskIds(evs) |->
        [st |-> IF t[2] = 0 THEN "lookup" ELSE "idle", row |-> {}]]

Pending(c) == \E t \in DOMAIN task[c] : task[c][t].st \in {"lookup", "create"}

ConflictPrefix(K) ==
    IF K = "events" THEN <<"EVENT_CONFLICT", ":">>
    ELSE <<"PROPERTY_CONFLICT", ":">>

DifferentDescription == <<"' already exists with a different description">>

\* the catch block of processTrackingPlanEvents
reconcileCatch(errorMessage) ==
    IF StartsWith(errorMessage, ConflictPrefix("events"))
    THEN Envelope(FALSE, {}, EVENT_ALREADY_EXISTS,
                  <<"Event '">> \o SplitColon1(errorMessage)
                      \o DifferentDescription)
    ELSE IF StartsWith(errorMessage, ConflictPrefix("properties"))
    THEN Envelope(FALSE, {}, PROPERTY_ALREADY_EXISTS,
                  <<"Property '">> \o SplitColon1(errorMessage)
                      \o DifferentDescription)
    ELSE Envelope(FALSE, {}, INTERNAL_ERROR, errorMessage)

\* a property's promise resolves to the rows resolved for it
propertyResultResolved(property, existingProperty) ==
    CHOOSE r \in existingProperty : TRUE

\* `return property`: a property's promise resolves to the submitted property
propertyResult(property, existingProperty) == property

\* { ...event, properties: processedProperties }
eventResult(event, processedProperties) ==
    [event EXCEPT !.properties = processedProperties]

\* the value of Promise.all(eventPromises) when every promise is fulfilled
processedEvents(evs, tk) ==
    [i \in 1..Len(evs) |->
        eventResult(evs[i],
            [j \in 1..Len(evs[i].properties) |->
                propertyResult(evs[i].properties[j], tk[<<i, j>>].row)])]

\* what the resolver looks up and creates for task t
Candidate(evs, t) ==
    IF t[2] = 0
    THEN [name |-> evs[t[1]].name, type |-> "track",
          description |-> evs[t[1]].description]
    ELSE LET property == evs[t[1]].properties[t[2]]
         IN [name |-> property.name, type |-> property.type,
             description |-> property.description]

\* a resolver that accepts the row it found whatever its description
descriptionAccepted(existing, candidate) == FALSE

\* existingEvent.description !== event.description
descriptionMismatch(existing, candidate) ==
    existing.description # candidate.description

\* the resolver overwrites the description of the row it found
existingRowOverwritten(d, K, existing, candidate) ==
    [d EXCEPT ![K] = (@ \ {existing})
          \cup {[existing EXCEPT !.description = candidate.description]}]

\* the store after the resolver's branch for a row that exists: the branch
\* compares and throws, it issues no write
existingRow(d, K, existing, candidate) == d

\* createTrackingPlan carries on although reconciliation failed
reconcileFailedIgnored(e) == FALSE

\* if (!processedEvents.success)
reconcileFailed(e) == ~e.success

\* the envelope createTrackingPlan / updateTrackingPlan return when
\* reconciliation failed
reconcileFailure(e) ==
    Envelope(FALSE, {},
             IF e.error = Undefined THEN INTERNAL_ERROR ELSE e.error, e.message)

\* updateTrackingPlan skips its name check
nameCheckSkipped(req, existing) == FALSE

\* updateTrackingPlan: name supplied and different from the current name
nameChanges(req, existing) ==
    /\ Supplied(req, "name")
    /\ req.name # <<>>
    /\ req.name # (CHOOSE r \in existing : TRUE).name

\* the caller's code after `await this.processTrackingPlanEvents(...)`
afterReconcile(c, e) ==
    IF op[c] = "processTrackingPlanEvents"
    THEN Return(c, e) /\ UNCHANGED loc
    ELSE IF reconcileFailed(e)
    THEN Return(c, reconcileFailure(e)) /\ UNCHANGED loc
    ELSE /\ loc' = [loc EXCEPT ![c].recon = {e}]
         /\ IF op[c] = "createTrackingPlan" THEN Goto(c, "create")
            ELSE IF nameChanges(arg[c].data, loc[c].existing)
            THEN Goto(c, "findName")
            ELSE Goto(c, "update")

\* const processedEvents = await this.processTrackingPlanEvents(events):
\* the fan-out is issued; an empty list resolves at once
reconcile(c, existing) ==
    LET evs == arg[c].data.events
    IN /\ task' = [task EXCEPT ![c] = FanOut(evs)]
       /\ IF evs = <<>>
          THEN IF op[c] = "createTrackingPlan"
               THEN /\ loc' = [loc EXCEPT ![c].existing = existing,
                                          ![c].recon = {Envelope(TRUE, {<<>>}, Undefined, <<>>)}]
                    /\ Goto(c, "create")
               ELSE /\ loc' = [loc EXCEPT ![c].existing = existing,
                                          ![c].recon = {Envelope(TRUE, {<<>>}, Undefined, <<>>)}]
                    /\ IF nameChanges(arg[c].data, existing)
                       THEN Goto(c, "findName") ELSE Goto(c, "update")
          ELSE /\ loc' = [loc EXCEPT ![c].existing = existing]
               /\ Goto(c, "recon")

\* One store round trip of the promise t of call c completes, and the code
\* runs on to the next await: the resolver's lookup or create, the start of
\* the event's property promises, the settling of the Promise.all's and,
\* when the outer one settles, the caller's continuation.
resolverStep(c, t) ==
    LET evs == arg[c].data.events
        K == IF t[2] = 0 THEN "events" ELSE "properties"
        cand == Candidate(evs, t)
        st == task[c][t].st
        ev == <<t[1], 0>>
    IN \E f \in FaultOutcomes :
        LET r == IF st = "lookup"
                 THEN StoreCall(f, Returned(db,
                          findByNameAndType(db, K, cand.name, cand.type)))
                 ELSE StoreCall(f, create(db, K, cand))
            row == CHOOSE x \in r.value : TRUE
            absent == ~r.threw /\ st = "lookup" /\ r.value = {}
            conflict == /\ ~r.threw /\ st = "lookup" /\ r.value # {}
                        /\ descriptionMismatch(row, cand)
            rejected == r.threw \/ conflict
            error == IF r.threw THEN r.error
                     ELSE ConflictPrefix(K) \o cand.name
            nprops == Len(evs[t[1]].properties)
            tk == IF rejected
                  THEN [task[c] EXCEPT ![t].st = "failed", ![ev].st = "failed"]
                  ELSE IF absent
                  THEN [task[c] EXCEPT ![t].st = "create"]
                  ELSE IF t[2] = 0
                  THEN [u \in DOMAIN task[c] |->
                          IF u = t
                          THEN [st |-> IF nprops = 0 THEN "done" ELSE "props",
                                row |-> r.value]
                          ELSE IF u[1] = t[1]
                          THEN [st |-> "lookup", row |-> {}]
                          ELSE task[c][u]]
                  ELSE LET done == [task[c] EXCEPT ![t] =
                                       [st |-> "done", row |-> r.value]]
                       IN IF /\ done[ev].st = "props"
                             /\ \A j \in 1..nprops : done[<<t[1], j>>].st = "done"
                          THEN [done EXCEPT ![ev].st = "done"]
                          ELSE done
            fulfilled == \A i \in 1..Len(evs) : tk[<<i, 0>>].st = "done"
        IN /\ Spend(f)
           /\ db' = IF ~r.threw /\ st = "lookup" /\ r.value # {}
                    THEN existingRow(r.db, K, row, cand) ELSE r.db
           /\ hist' = IF st = "create"
                      THEN Logged(c, Write(K, "create", 0, cand.name,
                                           cand.type, t, r))
                      ELSE hist
           /\ task' = [task EXCEPT ![c] = tk]
           /\ IF pc[c] = "recon" /\ rejected
              THEN afterReconcile(c, reconcileCatch(error))
              ELSE IF pc[c] = "recon" /\ fulfilled
              THEN afterReconcile(c,
                       Envelope(TRUE, {processedEvents(evs, tk)}, Undefined, <<>>))
              ELSE UNCHANGED <<pc, res, loc>>
           /\ UNCHANGED <<op, arg, budget>>

\* the promise of event i: await eventRepository.findByNameAndType(name, 'track')
eventLookup(c, i) ==
    /\ <<i, 0>> \in DOMAIN task[c]
    /\ task[c][<<i, 0>>].st = "lookup"
    /\ resolverStep(c, <<i, 0>>)

\* the promise of event i: await eventRepository.create(createEventRequest)
eventCreate(c, i) ==
    /\ <<i, 0>> \in DOMAIN task[c]
    /\ task[c][<<i, 0>>].st = "create"
    /\ resolverStep(c, <<i, 0>>)

\* the promise of property j of event i: await propertyRepository.findByNameAndType
propertyLookup(c, i, j) ==
    /\ <<i, j>> \in DOMAIN task[c]
    /\ task[c][<<i, j>>].st = "lookup"
    /\ resolverStep(c, <<i, j>>)

\* the promise of property j of event i: await propertyRepository.create
propertyCreate(c, i, j) ==
    /\ <<i, j>> \in DOMAIN task[c]
    /\ task[c][<<i, j>>].st = "create"
    /\ resolverStep(c, <<i, j>>)

----------------------------------------------------------------------------
(* TrackingPlanService: processTrackingPlanEvents, the sequential version *)

\* One iteration's lookup, create and comparison.  res holds the envelope
\* of an early return (or of the catch block), and is empty when the loop
\* goes on.
resolveSequential(d, K, cand) ==
    LET existing == findByNameAndType(d, K, cand.name, cand.type)
        r == create(d, K, cand)
    IN IF existing = {}
       THEN [db |-> r.db,
             res |-> IF r.threw
                     THEN {Envelope(FALSE, {}, INTERNAL_ERROR, r.error)}
                     ELSE {}]
       ELSE IF descriptionMismatch(CHOOSE x \in existing : TRUE, cand)
       THEN [db |-> d,
             res |-> {Envelope(FALSE, {}, AlreadyExistsOf(K),
                         (IF K = "events" THEN <<"Event '">>
                          ELSE <<"Property '">>)
                             \o cand.name \o DifferentDescription)}]
       ELSE [db |-> d, res |-> {}]

\* for (const property of event.properties), from the j-th property on
RECURSIVE propertiesSequential(_, _, _, _)
propertiesSequential(d, evs, i, j) ==
    IF j > Len(evs[i].properties) THEN [db |-> d, res |-> {}]
    ELSE LET s == resolveSequential(d, "properties", Candidate(evs, <<i, j>>))
         IN IF s.res # {} THEN s
            ELSE propertiesSequential(s.db, evs, i, j + 1)

\* for (const event of events), from the i-th event on
RECURSIVE eventsSequential(_, _, _)
eventsSequential(d, evs, i) ==
    IF i > Len(evs) THEN [db |-> d, res |-> {}]
    ELSE LET s == resolveSequential(d, "events", Candidate(evs, <<i, 0>>))
             p == propertiesSequential(s.db, evs, i, 1)
         IN IF s.res # {} THEN s
            ELSE IF p.res # {} THEN p
            ELSE eventsSequential(p.db, evs, i + 1)

\* the store the sequential processTrackingPlanEvents leaves and the
\* envelope it returns, run on store d with no other call interleaved
processTrackingPlanEventsSequential(d, evs) ==
    LET s == eventsSequential(d, evs, 1)
    IN [db |-> s.db,
        res |-> IF s.res # {} THEN CHOOSE e \in s.res : TRUE
                ELSE Envelope(TRUE,
                         {[i \in 1..Len(evs) |->
                              eventResult(evs[i], evs[i].properties)]},
                         Undefined, <<>>)]

----------------------------------------------------------------------------
(* TrackingPlanService: createTrackingPlan, updateTrackingPlan *)

\* createTrackingPlan: await findByName, the check, and the call of
\* processTrackingPlanEvents
createTrackingPlanFind(c) ==
    /\ pc[c] = "find"
    /\ \E f \in FaultOutcomes :
         LET r == StoreCall(f, Returned(db, findByName(db, arg[c].data.name)))
         IN /\ Spend(f)
            /\ IF r.threw
               THEN Return(c, createErrorResponse(r.error))
                    /\ UNCHANGED <<loc, task>>
               ELSE IF r.value # {}
               THEN Return(c, Failure(TRACKING_PLAN_ALREADY_EXISTS))
                    /\ UNCHANGED <<loc, task>>
               ELSE reconcile(c, {})
    /\ UNCHANGED <<db, op, arg, hist, budget>>

\* the request handed to trackingPlanRepository: the events are those
\* processTrackingPlanEvents returned
withProcessedEvents(req, recon) ==
    IF recon = {} THEN req
    ELSE LET data == (CHOOSE e \in recon : TRUE).data
         IN [req EXCEPT !.events = IF data = {} THEN <<>>
                                   ELSE CHOOSE x \in data : TRUE]

\* processedEvents.data is undefined: the events column is notNullable
eventsMissing(recon) == \E e \in recon : e.data = {}

NotNull == <<"null value in column events violates not-null constraint">>

\* trackingPlanRepository.create / update with the request so completed
planWrite(d, method, id, req, recon) ==
    IF eventsMissing(recon) THEN Threw(d, NotNull)
    ELSE IF method = "create" THEN create(d, "tracking_plans", req)
    ELSE update(d, "tracking_plans", id, req)

\* createTrackingPlan: await trackingPlanRepository.create
createTrackingPlanCreate(c) ==
    /\ pc[c] = "create"
    /\ \E f \in FaultOutcomes :
         LET req == withProcessedEvents(arg[c].data, loc[c].recon)
             r == StoreCall(f, planWrite(db, "create", 0, req, loc[c].recon))
         IN /\ Spend(f)
            /\ db' = r.db
            /\ hist' = Logged(c, Write("tracking_plans", "create", 0,
                                       req.name, "", Main, r))
            /\ Return(c, handleAsyncOperationWithMessage(
                             r, Created("tracking_plans")))
    /\ UNCHANGED <<op, arg, loc, task, budget>>

\* updateTrackingPlan: await findById, the check, and, when events are
\* supplied, the call of processTrackingPlanEvents
updateTrackingPlanFind(c) ==
    /\ pc[c] = "find"
    /\ \E f \in FaultOutcomes :
         LET r == StoreCall(f, Returned(db,
                      findById(db, "tracking_plans", arg[c].id)))
         IN /\ Spend(f)
            /\ IF r.threw
               THEN Return(c, createErrorResponse(r.error))
                    /\ UNCHANGED <<loc, task>>
               ELSE IF r.value = {}
               THEN Return(c, Failure(TRACKING_PLAN_NOT_FOUND))
                    /\ UNCHANGED <<loc, task>>
               ELSE IF Supplied(arg[c].data, "events")
               THEN reconcile(c, r.value)
               ELSE /\ loc' = [loc EXCEPT ![c].existing = r.value]
                    /\ IF nameChanges(arg[c].data, r.value)
                       THEN Goto(c, "findName") ELSE Goto(c, "update")
                    /\ UNCHANGED task
    /\ UNCHANGED <<db, op, arg, hist, budget>>

\* updateTrackingPlan: await findByName(trackingPlanData.name)
updateTrackingPlanFindName(c) ==
    /\ pc[c] = "findName"
    /\ \E f \in FaultOutcomes :
         LET r == StoreCall(f, Returned(db, findByName(db, arg[c].data.name)))
         IN /\ Spend(f)
            /\ IF r.threw THEN Return(c, createErrorResponse(r.error))
               ELSE IF r.value # {}
               THEN Return(c, Failure(TRACKING_PLAN_ALREADY_EXISTS))
               ELSE Goto(c, "update")
    /\ UNCHANGED <<db, op, arg, loc, task, hist, budget>>

\* updateTrackingPlan: await trackingPlanRepository.update
updateTrackingPlanUpdate(c) ==
    /\ pc[c] = "update"
    /\ \E f \in FaultOutcomes :
         LET req == withProcessedEvents(arg[c].data, loc[c].recon)
             r == StoreCall(f, planWrite(db, "update", arg[c].id, req,
                                         loc[c].recon))
         IN /\ Spend(f)
            /\ db' = r.db
            /\ hist' = Logged(c, Write("tracking_plans", "update",
                                       arg[c].id, <<>>, "", Main, r))
            /\ Return(c, handleAsyncOperationWithNullCheckAndMessage(
                             r, TRACKING_PLAN_NOT_FOUND,
                             Updated("tracking_plans")))
    /\ UNCHANGED <<op, arg, loc, task, budget>>

----------------------------------------------------------------------------
(* Requests *)

EventOps == {"createEvent", "updateEvent", "deleteEvent"}

PropertyOps == {"createProperty", "updateProperty", "deleteProperty"}

PlanOps == {"createTrackingPlan", "updateTrackingPlan", "deleteTrackingPlan",
            "getTrackingPlanById", "processTrackingPlanEvents"}

GetOps == {"getEventById", "getPropertyById", "getTrackingPlanById"}

ListOps == {"getEvents", "getProperties", "getTrackingPlans"}

\* the first await of each method
Entry(o) ==
    IF o \in {"updateEvent", "updateProperty"} THEN "lookups"
    ELSE IF o \in GetOps THEN "get"
    ELSE IF o \in ListOps THEN "list"
    ELSE IF o = "processTrackingPlanEvents" THEN "recon"
    ELSE "find"

\* a call of method o with arguments a enters slot c
Start(c, o, a) ==
    /\ op' = [op EXCEPT ![c] = o]
    /\ arg' = [arg EXCEPT ![c] = a]
    /\ hist' = [hist EXCEPT ![c] = [writes |-> {}, pre |-> db]]
    /\ loc' = [loc EXCEPT ![c] =
                  [NoLoc EXCEPT !.pending =
                      IF o \in ListOps THEN {"count", "page"}
                      ELSE IF o \notin {"updateEvent", "updateProperty"} THEN {}
                      ELSE IF TruthyName(a.data) \/ TruthyType(a.data)
                      THEN {"byId", "byKey"} ELSE {"byId"}]]
    /\ task' = [task EXCEPT ![c] =
                   IF o = "processTrackingPlanEvents"
                   THEN FanOut(a.data.events) ELSE NoTasks]
    /\ IF o = "processTrackingPlanEvents" /\ a.data.events = <<>>
       THEN Return(c, Envelope(TRUE, {<<>>}, Undefined, <<>>))
       ELSE /\ pc' = [pc EXCEPT ![c] = Entry(o)]
            /\ res' = [res EXCEPT ![c] = NoRes]
    /\ UNCHANGED <<db, faults>>

\* slot c holds no call, or one that has returned and left nothing running
Free(c) == op[c] = "idle" \/ (pc[c] = "done" /\ ~Pending(c))

A == <<"a">>

B == <<"b">>

P == <<"p">>

Q == <<"q">>

\* a name that contains the character ':'
C == <<"c", ":", "x">>

T1 == <<"t", "1">>

T2 == <<"t", "2">>

Property(name, type, description) ==
    [name |-> name, type |-> type, required |-> TRUE,
     description |-> description]

Event(name, description, properties) ==
    [name |-> name, description |-> description, properties |-> properties,
     additionalProperties |-> FALSE]

EmptyStore ==
    [events |-> {}, properties |-> {}, tracking_plans |-> {},
     seq |-> [events |-> 1, properties |-> 1, tracking_plans |-> 1]]

----------------------------------------------------------------------------
(* Concurrent calls: any interleaving of service calls over one store *)

EventRequests ==
    [op : {"createEvent"}, id : {0},
     data : [name : {A}, type : {"track", "identify"}, description : {"d1"}]]
    \cup [op : {"updateEvent"}, id : {1},
          data : [name : {A}] \cup [type : {"track"}] \cup [description : {"d2"}]]
    \cup [op : {"deleteEvent"}, id : {1}, data : {<<>>}]

PropertyRequests ==
    [op : {"createProperty"}, id : {0},
     data : [name : {P}, type : {"string"}, description : {"d1"}]]
    \cup [op : {"updateProperty"}, id : {1},
          data : [type : {"number"}] \cup [description : {"d2"}]]
    \cup [op : {"deleteProperty"}, id : {1}, data : {<<>>}]

PlanRequests ==
    [op : {"createTrackingPlan"}, id : {0},
     data : [name : {T1}, description : {"d1"},
             events : {<<Event(A, "d1", <<Property(P, "string", "d1")>>)>>,
                       <<Event(A, "d2", <<>>)>>}]
            \cup [name : {T2}, description : {"d1"}, events : {<<>>}]]
    \cup [op : {"updateTrackingPlan"}, id : {1},
          data : [name : {T2}] \cup [events : {<<Event(A, "d1", <<>>)>>}]]
    \cup [op : {"deleteTrackingPlan"}, id : {1}, data : {<<>>}]

Requests == EventRequests \cup PropertyRequests \cup PlanRequests

Begin(c) ==
    /\ budget > 0
    /\ Free(c)
    /\ budget' = budget - 1
    /\ \E q \in Requests : Start(c, q.op, [id |-> q.id, data |-> q.data])

Init ==
    /\ db = EmptyStore
    /\ op = [c \in Slots |-> "idle"]
    /\ arg = [c \in Slots |-> [id |-> 0, data |-> <<>>]]
    /\ pc = [c \in Slots |-> "done"]
    /\ loc = [c \in Slots |-> NoLoc]
    /\ task = [c \in Slots |-> NoTasks]
    /\ res = [c \in Slots |-> NoRes]
    /\ hist = [c \in Slots |-> [writes |-> {}, pre |-> EmptyStore]]
    /\ budget = MaxCalls
    /\ faults = 0

createEvent(c) ==
    /\ op[c] = "createEvent"
    /\ createFind(c, "events") \/ createInsert(c, "events")

updateEvent(c) ==
    /\ op[c] = "updateEvent"
    /\ \/ \E which \in {"byId", "byKey"} : updateLookup(c, "events", which)
       \/ updateWrite(c, "events")

deleteEvent(c) ==
    /\ op[c] = "deleteEvent"
    /\ deleteFind(c, "events") \/ deleteWrite(c, "events")

createProperty(c) ==
    /\ op[c] = "createProperty"
    /\ createFind(c, "properties") \/ createInsert(c, "properties")

updateProperty(c) ==
    /\ op[c] = "updateProperty"
    /\ \/ \E which \in {"byId", "byKey"} : updateLookup(c, "properties", which)
       \/ updateWrite(c, "properties")

deleteProperty(c) ==
    /\ op[c] = "deleteProperty"
    /\ deleteFind(c, "properties") \/ deleteWrite(c, "properties")

createTrackingPlan(c) ==
    /\ op[c] = "createTrackingPlan"
    /\ createTrackingPlanFind(c) \/ createTrackingPlanCreate(c)

updateTrackingPlan(c) ==
    /\ op[c] = "updateTrackingPlan"
    /\ \/ updateTrackingPlanFind(c)
       \/ updateTrackingPlanFindName(c)
       \/ updateTrackingPlanUpdate(c)

deleteTrackingPlan(c) ==
    /\ op[c] = "deleteTrackingPlan"
    /\ deleteFind(c, "tracking_plans") \/ deleteWrite(c, "tracking_plans")

getTrackingPlanById(c) ==
    /\ op[c] = "getTrackingPlanById"
    /\ getById(c, "tracking_plans")

getEventById(c) ==
    /\ op[c] = "getEventById"
    /\ getById(c, "events")

getPropertyById(c) ==
    /\ op[c] = "getPropertyById"
    /\ getById(c, "properties")

getEvents(c) ==
    /\ op[c] = "getEvents"
    /\ \E which \in {"count", "page"} : findAll(c, "events", which)

getProperties(c) ==
    /\ op[c] = "getProperties"
    /\ \E which \in {"count", "page"} : findAll(c, "properties", which)

getTrackingPlans(c) ==
    /\ op[c] = "getTrackingPlans"
    /\ \E which \in {"count", "page"} : findAll(c, "tracking_plans", which)

\* a promise of the fan-out of call c takes its next step
processTrackingPlanEvents(c) ==
    \E i \in 1..2 :
        \/ eventLookup(c, i)
        \/ eventCreate(c, i)
        \/ \E j \in 1..2 : propertyLookup(c, i, j) \/ propertyCreate(c, i, j)

Next ==
    \E c \in Slots :
        \/ Begin(c)
        \/ createEvent(c)
        \/ updateEvent(c)
        \/ deleteEvent(c)
        \/ createProperty(c)
        \/ updateProperty(c)
        \/ deleteProperty(c)
        \/ createTrackingPlan(c)
        \/ updateTrackingPlan(c)
        \/ deleteTrackingPlan(c)
        \/ processTrackingPlanEvents(c)

Spec == Init /\ [][Next]_vars

----------------------------------------------------------------------------
(* One call at a time: a tracking-plan call over any store, then the same  *)
(* reconciliation again, or the created plan read back                     *)

T3 == <<"t", "3">>

\* a row of the store with key (name, type), or none
Rows(id, name, type, descriptions, rules) ==
    {{}} \cup {{[id |-> id, name |-> name, type |-> type, description |-> d]
                 @@ rules} : d \in descriptions}

NoRules == [x \in {} |-> 0]

Plan(id, name, events) ==
    [id |-> id, name |-> name, description |-> "d1", events |-> events]

Stores ==
    {[events |-> a \cup b, properties |-> p \cup q,
      tracking_plans |-> {Plan(1, T1, <<Event(A, "d1", <<>>)>>),
                          Plan(2, T2, <<>>)},
      seq |-> [events |-> 3, properties |-> 3, tracking_plans |-> 3]] :
        a \in Rows(1, A, "track", {"d1", "d2"}, NoRules),
        b \in Rows(2, B, "track", {"d2"}, NoRules),
        p \in Rows(1, P, "string", {"d1", "d2"}, [validation_rules |-> "null"]),
        q \in Rows(2, Q, "string", {"d2"}, [validation_rules |-> "r1"])}

PropertyLists ==
    {<<>>, <<Property(P, "string", "d1")>>,
     <<Property(P, "string", "d1"), Property(Q, "string", "d1")>>}

Events1 == {Event(n, "d1", ps) : n \in {A, B}, ps \in PropertyLists}

\* lists that repeat a key with another description
RepeatLists ==
    {<<Event(A, "d1", <<>>), Event(A, "d2", <<>>)>>,
     <<Event(A, "d1", <<Property(P, "string", "d1"),
                        Property(P, "string", "d2")>>)>>}

EventLists ==
    {<<>>} \cup {<<e>> : e \in Events1} \cup {<<e, g>> : e, g \in Events1}
        \cup RepeatLists

ShortLists == {<<>>} \cup {<<e>> : e \in Events1}

OneRequests ==
    [op : {"processTrackingPlanEvents"}, id : {0}, data : [events : EventLists]]
    \cup [op : {"createTrackingPlan"}, id : {0},
          data : [name : {T1, T3}, description : {"d2"}, events : EventLists]]
    \cup [op : {"updateTrackingPlan"}, id : {1, 9},
          data : [name : {T1, T2, T3}]
                 \cup [description : {"d2"}, events : ShortLists]
                 \cup [name : {T2, T3}, events : ShortLists]]

BeginOne ==
    /\ budget > 0
    /\ budget' = budget - 1
    /\ \E q \in OneRequests : Start(1, q.op, [id |-> q.id, data |-> q.data])

\* the reconciliation of slot 1 has returned and every promise of it has
\* settled: the same list is reconciled again
Again ==
    /\ op[1] = "processTrackingPlanEvents"
    /\ pc[1] = "done"
    /\ ~Pending(1)
    /\ op[2] = "idle"
    /\ Start(2, "processTrackingPlanEvents", arg[1])
    /\ UNCHANGED budget

\* createTrackingPlan has returned a plan: getTrackingPlanById of its id
ReadBack ==
    /\ op[1] = "createTrackingPlan"
    /\ pc[1] = "done"
    /\ res[1].success
    /\ op[2] = "idle"
    /\ Start(2, "getTrackingPlanById",
             [id |-> (CHOOSE r \in res[1].data : TRUE).id, data |-> <<>>])
    /\ UNCHANGED budget

InitOne ==
    /\ db \in Stores
    /\ op = [c \in Slots |-> "idle"]
    /\ arg = [c \in Slots |-> [id |-> 0, data |-> <<>>]]
    /\ pc = [c \in Slots |-> "done"]
    /\ loc = [c \in Slots |-> NoLoc]
    /\ task = [c \in Slots |-> NoTasks]
    /\ res = [c \in Slots |-> NoRes]
    /\ hist = [c \in Slots |-> [writes |-> {}, pre |-> db]]
    /\ budget = 1
    /\ faults = 0

NextOne ==
    \/ BeginOne
    \/ Again
    \/ ReadBack
    \/ \E c \in Slots :
        \/ createTrackingPlan(c)
        \/ updateTrackingPlan(c)
        \/ getTrackingPlanById(c)
        \/ processTrackingPlanEvents(c)

SpecOne == InitOne /\ [][NextOne]_vars

----------------------------------------------------------------------------
(* The controllers: the HTTP status a service result is answered with *)

CreateOps == {"createEvent", "createProperty", "createTrackingPlan"}

UpdateOps == {"updateEvent", "updateProperty", "updateTrackingPlan"}

DeleteOps == {"deleteEvent", "deleteProperty", "deleteTrackingPlan"}

ControllerOps == CreateOps \cup UpdateOps \cup DeleteOps \cup GetOps \cup ListOps

\* res.status(...) of the controller method that calls service method o,
\* for the result the service returned
status(o, result) ==
    IF o \in CreateOps
    THEN IF result.success THEN CREATED ELSE CONFLICT
    ELSE IF o \in GetOps \cup DeleteOps
    THEN IF result.success THEN OK ELSE NOT_FOUND
    ELSE IF o \in ListOps
    THEN IF result.success THEN OK ELSE INTERNAL_SERVER_ERROR
    ELSE IF result.success THEN OK
    ELSE IF result.error = NotFoundOf(TableOf(o)) THEN NOT_FOUND
    ELSE CONFLICT

----------------------------------------------------------------------------
(* One call of any service method over any store, while the store may fail *)

MaxFaults == 1

FailingStores ==
    {[events |-> a \cup b \cup i \cup n, properties |-> p \cup q,
      tracking_plans |-> t,
      seq |-> [events |-> 5, properties |-> 3, tracking_plans |-> 3]] :
        a \in Rows(1, A, "track", {"d1"}, NoRules),
        b \in Rows(2, B, "track", {"d1"}, NoRules),
        i \in Rows(3, A, "identify", {"d1"}, NoRules),
        n \in Rows(4, C, "track", {"d1"}, NoRules),
        p \in Rows(1, P, "string", {"d1"}, [validation_rules |-> "null"]),
        q \in Rows(2, Q, "string", {"d1"}, [validation_rules |-> "null"]),
        t \in {{}, {Plan(1, T1, <<Event(A, "d1", <<>>)>>), Plan(2, T2, <<>>)}}}

ListParams ==
    {<<>>} \cup [page : {1, 2, 3}, limit : {1, 2}] \cup [page : {2}]
        \cup [limit : {2}]

EventCalls ==
    [op : {"createEvent"}, id : {0},
     data : [name : {A, B}, type : {"track", "identify"}, description : {"d2"}]]
    \cup [op : {"getEventById", "deleteEvent"}, id : {1, 9}, data : {<<>>}]
    \cup [op : {"getEvents"}, id : {0}, data : ListParams \cup [type : {"track"}]]
    \cup [op : {"updateEvent"}, id : {2, 3, 9},
          data : [name : {A, B}] \cup [type : {"track", "identify"}]
                 \cup [name : {A, B}, type : {"track", "identify"}]
                 \cup [description : {"d2"}]]

PropertyCalls ==
    [op : {"createProperty"}, id : {0},
     data : [name : {P, Q}, type : {"string"}, description : {"d2"}]]
    \cup [op : {"getPropertyById", "deleteProperty"}, id : {1, 9}, data : {<<>>}]
    \cup [op : {"getProperties"}, id : {0}, data : ListParams]
    \cup [op : {"updateProperty"}, id : {2, 9},
          data : [name : {P, Q}] \cup [name : {P}, type : {"string"}]
                 \cup [description : {"d2"}]]

PlanEventLists ==
    {<<>>, <<Event(A, "d2", <<>>)>>,
     <<Event(B, "d1", <<Property(P, "string", "d2")>>)>>,
     <<Event(A, "d2", <<Property(P, "number", "d2")>>)>>,
     <<Event(C, "d2", <<>>)>>,
     <<Event(A, "d2", <<>>), Event(B, "d1", <<>>)>>}

PlanCalls ==
    [op : {"createTrackingPlan"}, id : {0},
     data : [name : {T1, T3}, description : {"d2"}, events : PlanEventLists]]
    \cup [op : {"getTrackingPlanById", "deleteTrackingPlan"}, id : {1, 9},
          data : {<<>>}]
    \cup [op : {"getTrackingPlans"}, id : {0}, data : ListParams]
    \cup [op : {"updateTrackingPlan"}, id : {1, 9},
          data : [name : {T2, T3}]
                 \cup [events : {<<Event(A, "d2", <<>>), Event(B, "d1", <<>>)>>}]]

Calls == EventCalls \cup PropertyCalls \cup PlanCalls

BeginFailing ==
    /\ budget > 0
    /\ budget' = budget - 1
    /\ \E q \in Calls : Start(1, q.op, [id |-> q.id, data |-> q.data])

InitFailing ==
    /\ db \in FailingStores
    /\ op = [c \in Slots |-> "idle"]
    /\ arg = [c \in Slots |-> [id |-> 0, data |-> <<>>]]
    /\ pc = [c \in Slots |-> "done"]
    /\ loc = [c \in Slots |-> NoLoc]
    /\ task = [c \in Slots |-> NoTasks]
    /\ res = [c \in Slots |-> NoRes]
    /\ hist = [c \in Slots |-> [writes |-> {}, pre |-> db]]
    /\ budget = 1
    /\ faults = MaxFaults

NextFailing ==
    \/ BeginFailing
    \/ \E c \in Slots :
        \/ createEvent(c)
        \/ getEventById(c)
        \/ getEvents(c)
        \/ updateEvent(c)
        \/ deleteEvent(c)
        \/ createProperty(c)
        \/ getPropertyById(c)
        \/ getProperties(c)
        \/ updateProperty(c)
        \/ deleteProperty(c)
        \/ createTrackingPlan(c)
        \/ getTrackingPlanById(c)
        \/ getTrackingPlans(c)
        \/ updateTrackingPlan(c)
        \/ deleteTrackingPlan(c)
        \/ processTrackingPlanEvents(c)

SpecFailing == InitFailing /\ [][NextFailing]_vars

----------------------------------------------------------------------------
(* Two calls racing for a key that has no row yet *)

RaceStores ==
    {[events |-> b, properties |-> {}, tracking_plans |-> {},
      seq |-> [events |-> 2, properties |-> 1, tracking_plans |-> 1]] :
        b \in Rows(1, B, "track", {"d2"}, NoRules)}

RaceCalls ==
    [op : {"createEvent"}, id : {0},
     data : [name : {A}, type : {"track"}, description : {"d1"}]]
    \cup [op : {"createProperty"}, id : {0},
          data : [name : {P}, type : {"string"}, description : {"d1"}]]
    \cup [op : {"processTrackingPlanEvents"}, id : {0},
          data : [events : {<<Event(A, "d1", <<Property(P, "string", "d1")>>)>>,
                            <<Event(A, "d1", <<>>), Event(B, "d1", <<>>)>>}]]

BeginRace(c) ==
    /\ budget > 0
    /\ op[c] = "idle"
    /\ budget' = budget - 1
    /\ \E q \in RaceCalls : Start(c, q.op, [id |-> q.id, data |-> q.data])

InitRace ==
    /\ db \in RaceStores
    /\ op = [c \in Slots |-> "idle"]
    /\ arg = [c \in Slots |-> [id |-> 0, data |-> <<>>]]
    /\ pc = [c \in Slots |-> "done"]
    /\ loc = [c \in Slots |-> NoLoc]
    /\ task = [c \in Slots |-> NoTasks]
    /\ res = [c \in Slots |-> NoRes]
    /\ hist = [c \in Slots |-> [writes |-> {}, pre |-> db]]
    /\ budget = 2
    /\ faults = 0

NextRace ==
    \E c \in Slots :
        \/ BeginRace(c)
        \/ createEvent(c)
        \/ createProperty(c)
        \/ processTrackingPlanEvents(c)

SpecRace == InitRace /\ [][NextRace]_vars

----------------------------------------------------------------------------
(* Properties *)

TrackingPlanCalls == {"createTrackingPlan", "updateTrackingPlan"}

Tables(d) == [events |-> d.events, properties |-> d.properties,
              tracking_plans |-> d.tracking_plans]

UniqueKeys(tbl) ==
    \A r1, r2 \in tbl : (r1.name = r2.name /\ r1.type = r2.type) => r1 = r2

UniqueNames(tbl) == \A r1, r2 \in tbl : r1.name = r2.name => r1 = r2

\* the store refused a write of call c to table K
Refused(c, K) == \E w \in hist[c].writes : w.table = K /\ ~w.ok

\* the resolver of task t meets, in store d, a row whose description differs
Conflicting(d, evs, t) ==
    LET cand == Candidate(evs, t)
    IN \E r \in d[IF t[2] = 0 THEN "events" ELSE "properties"] :
          /\ r.name = cand.name
          /\ r.type = cand.type
          /\ r.description # cand.description

\* t comes before u in document order
Before(t, u) == t[1] < u[1] \/ (t[1] = u[1] /\ t[2] < u[2])

EndsWith(s, suffix) ==
    /\ Len(s) >= Len(suffix)
    /\ SubSeq(s, Len(s) - Len(suffix) + 1, Len(s)) = suffix

\* some promise of the reconciliation of call c was rejected
ReconcileRejected(c) == \E t \in DOMAIN task[c] : task[c][t].st = "failed"

PlanWrites(c) == {w \in hist[c].writes : w.table = "tracking_plans"}

\* C1: in every reachable state, whatever the interleaving of the event,
\* property and tracking-plan calls, no two event rows share (name, type)
\* and no two property rows share (name, type).
C1_UniqueNameType == UniqueKeys(db.events) /\ UniqueKeys(db.properties)

\* C1 witness: two calls passed their lookup for the same key, one insert
\* went through and the store refused the other.
C1_Witness ==
    \E c \in Slots :
        /\ Refused(c, "events")
        /\ Cardinality(db.events) >= 1

\* C2: in every reachable state no two tracking-plan rows share a name.
C2_UniquePlanName == UniqueNames(db.tracking_plans)

\* C2 witness: the store refused a tracking-plan write that would have
\* duplicated the name of a stored plan.
C2_Witness ==
    \E c \in Slots :
        /\ Refused(c, "tracking_plans")
        /\ Cardinality(db.tracking_plans) >= 1

\* C3 (as claimed): when the store holds, at the start of a
\* processTrackingPlanEvents call, an event or property row whose
\* description differs from an embedded one, the call returns success=false
\* with EVENT_ALREADY_EXISTS (PROPERTY_ALREADY_EXISTS) and the message
\* "... already exists with a different description", and the stored rows
\* keep their description.
C3_ConflictReported ==
    \A c \in Slots :
        LET evs == arg[c].data.events
            pre == hist[c].pre
            ev == \E t \in DOMAIN task[c] : t[2] = 0 /\ Conflicting(pre, evs, t)
            pr == \E t \in DOMAIN task[c] : t[2] # 0 /\ Conflicting(pre, evs, t)
        IN (op[c] = "processTrackingPlanEvents" /\ pc[c] = "done" /\ (ev \/ pr))
           => /\ ~res[c].success
              /\ \/ ev /\ res[c].error = EVENT_ALREADY_EXISTS
                 \/ pr /\ res[c].error = PROPERTY_ALREADY_EXISTS
              /\ EndsWith(res[c].message, DifferentDescription)
              /\ pre.events \subseteq db.events
              /\ pre.properties \subseteq db.properties

\* C4: when the reconciliation of a createTrackingPlan or updateTrackingPlan
\* call has failed (a description conflict, or a failure of the store), the
\* call never invokes trackingPlanRepository.create or update, and the
\* tracking_plans table is as it was before the call.
C4_NoPlanWriteAfterFailedReconcile ==
    \A c \in Slots :
        (op[c] \in TrackingPlanCalls /\ ReconcileRejected(c))
        => /\ PlanWrites(c) = {}
           /\ db.tracking_plans = hist[c].pre.tracking_plans

\* C4 witness: a createTrackingPlan whose reconciliation failed on a refused
\* insert has returned.
C4_Witness ==
    /\ op[1] = "createTrackingPlan"
    /\ pc[1] = "done"
    /\ ReconcileRejected(1)
    /\ res[1].error = INTERNAL_ERROR

\* C5 (as claimed): when createTrackingPlan returns a name conflict or a
\* description conflict, the events, properties and tracking_plans tables
\* are as they were before the call.
C5_ConflictWritesNothing ==
    ( /\ op[1] = "createTrackingPlan"
      /\ pc[1] = "done"
      /\ res[1].error \in {TRACKING_PLAN_ALREADY_EXISTS, EVENT_ALREADY_EXISTS,
                            PROPERTY_ALREADY_EXISTS} )
    => Tables(db) = Tables(hist[1].pre)

\* C6 (as claimed): reconciling the same list a second time, after
\* everything the first run started has finished, returns the same result
\* as the first run and leaves the events and properties tables as the
\* first run left them.
C6_Idempotent ==
    ( /\ op[1] = "processTrackingPlanEvents"
      /\ op[2] = "processTrackingPlanEvents"
      /\ pc[2] = "done"
      /\ ~Pending(2) )
    => /\ res[2] = res[1]
       /\ Tables(db) = Tables(hist[2].pre)

\* C7: a successful processTrackingPlanEvents returns the list it was
\* given, and getTrackingPlanById of a plan createTrackingPlan has just
\* created returns the submitted events: same events, same order, same
\* fields, same properties in the same order.
C7_RoundTrip ==
    /\ \A c \in Slots :
          ( /\ op[c] = "processTrackingPlanEvents"
            /\ pc[c] = "done"
            /\ res[c].success )
          => res[c].data = {arg[c].data.events}
    /\ (op[2] = "getTrackingPlanById" /\ pc[2] = "done")
       => /\ res[2].success
          /\ \A row \in res[2].data :
                /\ row.events = arg[1].data.events
                /\ row.name = arg[1].data.name

\* C7 witness: a plan of two events, the second with two properties, was
\* created and read back.
C7_Witness ==
    /\ op[2] = "getTrackingPlanById"
    /\ pc[2] = "done"
    /\ Len(arg[1].data.events) = 2
    /\ Len(arg[1].data.events[2].properties) = 2
    /\ arg[1].data.events[1] # arg[1].data.events[2]

\* the request of call c renames plan A to the name of another stored plan
RenamesOntoOther(c) ==
    /\ op[c] = "updateTrackingPlan"
    /\ DOMAIN arg[c].data = {"name"}
    /\ \E a, b \in hist[c].pre.tracking_plans :
          /\ a.id = arg[c].id
          /\ b.id # a.id
          /\ arg[c].data.name # a.name
          /\ arg[c].data.name = b.name

\* C8: updateTrackingPlan(A, {name: n}) with n different from A's name and
\* held by another plan B returns TRACKING_PLAN_ALREADY_EXISTS, does not
\* call trackingPlanRepository.update and leaves A's row as it was.
C8_RenameCollision ==
    \A c \in Slots :
        (RenamesOntoOther(c) /\ pc[c] = "done")
        => /\ res[c] = Failure(TRACKING_PLAN_ALREADY_EXISTS)
           /\ PlanWrites(c) = {}
           /\ db.tracking_plans = hist[c].pre.tracking_plans

\* C8 witness: such a rename has returned.
C8_Witness == \E c \in Slots : RenamesOntoOther(c) /\ pc[c] = "done"

\* C9 (as claimed): the conflict processTrackingPlanEvents reports is the
\* first one of the list in document order, whatever order the lookups
\* complete in.
C9_FirstConflictInDocumentOrder ==
    \A c \in Slots :
        LET evs == arg[c].data.events
            conflicts == {t \in DOMAIN task[c] : Conflicting(hist[c].pre, evs, t)}
            first == CHOOSE t \in conflicts :
                        \A u \in conflicts \ {t} : Before(t, u)
        IN ( /\ op[c] = "processTrackingPlanEvents"
             /\ pc[c] = "done"
             /\ res[c].error \in {EVENT_ALREADY_EXISTS, PROPERTY_ALREADY_EXISTS} )
           => res[c] = reconcileCatch(
                  ConflictPrefix(IF first[2] = 0 THEN "events" ELSE "properties")
                      \o Candidate(evs, first).name)

\* C10: reconciliation never changes or deletes a row: every event and
\* property row present before the call is present with the same fields
\* at every later moment, whether the call succeeds or fails, and the only
\* writes it issues are inserts.
C10_ExistingRowsUntouched ==
    \A c \in Slots :
        op[c] \in TrackingPlanCalls \cup {"processTrackingPlanEvents"}
        => /\ hist[c].pre.events \subseteq db.events
           /\ hist[c].pre.properties \subseteq db.properties
           /\ \A w \in hist[c].writes :
                 w.table \in {"events", "properties"} => w.method = "create"

\* C10 witness: a reconciliation over a store that held a row with another
\* description and a row with the same description has returned, after
\* inserting a row.
C10_Witness ==
    /\ op[1] = "processTrackingPlanEvents"
    /\ pc[1] = "done"
    /\ \E t \in DOMAIN task[1] : Conflicting(hist[1].pre, arg[1].data.events, t)
    /\ \E t \in DOMAIN task[1] : task[1][t].st = "done"
    /\ \E w \in hist[1].writes : w.ok
    /\ hist[1].pre.events # {}

\* the inserts call c issued to the events and properties tables
Inserts(c) ==
    {w \in hist[c].writes :
        w.table \in {"events", "properties"} /\ w.method = "create"}

\* C11 (as claimed): within one processTrackingPlanEvents call at most one
\* insert is issued per (name, type) key of a table, also when the key
\* occurs several times in the list.
C11_OneInsertPerKey ==
    \A c \in Slots :
        op[c] = "processTrackingPlanEvents"
        => \A w1, w2 \in Inserts(c) :
              (w1.table = w2.table /\ w1.name = w2.name /\ w1.type = w2.type)
              => w1 = w2

\* C12: no step of deleteTrackingPlan changes the events or the properties
\* table, whatever rows they hold, those a plan's reconciliation created
\* included.
C12_DeleteKeepsEventsAndProperties ==
    [][\A c \in Slots :
          deleteTrackingPlan(c)
          => /\ db'.events = db.events
             /\ db'.properties = db.properties]_vars

\* C12 witness: a plan whose creation inserted an event row has been
\* deleted, and the event row is still stored.
C12_Witness ==
    \E c, k \in Slots :
        /\ op[c] = "deleteTrackingPlan" /\ pc[c] = "done" /\ res[c].success
        /\ op[k] = "createTrackingPlan" /\ pc[k] = "done" /\ res[k].success
        /\ \E w \in Inserts(k) :
              /\ w.ok
              /\ w.table = "events"
              /\ \E r \in db.events : r.name = w.name /\ r.type = w.type
        /\ \A r \in res[k].data : r \notin db.tracking_plans

\* a store call of the one call of SpecFailing was made to fail
StoreFailed == faults < MaxFaults

\* the row call c is about was not stored when the call began
Missing(c) == findById(hist[c].pre, TableOf(op[c]), arg[c].id) = {}

\* C13: deleteEvent, deleteProperty and deleteTrackingPlan of an id without
\* a row never call repository.delete and leave the store as it was; they
\* return the entity's NOT_FOUND error, unless the lookup itself failed;
\* and whenever a store call of a delete fails the error returned is
\* INTERNAL_ERROR, which is not the NOT_FOUND error.
C13_DeleteNotFound ==
    \A c \in Slots :
        op[c] \in DeleteOps
        => /\ Missing(c) => (hist[c].writes = {} /\ db = hist[c].pre)
           /\ (Missing(c) /\ pc[c] = "done" /\ ~StoreFailed)
              => res[c] = Failure(NotFoundOf(TableOf(op[c])))
           /\ (pc[c] = "done" /\ StoreFailed)
              => /\ ~res[c].success
                 /\ res[c].error = INTERNAL_ERROR
                 /\ res[c].error # NotFoundOf(TableOf(op[c]))

\* C13 witness: deleteTrackingPlan of an id without a row has returned
\* TRACKING_PLAN_NOT_FOUND over a store that holds other plans.
C13_Witness ==
    /\ op[1] = "deleteTrackingPlan"
    /\ pc[1] = "done"
    /\ Missing(1)
    /\ db.tracking_plans # {}
    /\ res[1].error = TRACKING_PLAN_NOT_FOUND

\* a repository call of call c threw: the store was made to fail, or it
\* refused a write
SomethingThrew(c) == StoreFailed \/ \E w \in hist[c].writes : ~w.ok

\* C14 (as claimed): when a repository call made by a service operation
\* throws, the operation returns success=false with error INTERNAL_ERROR
\* and the message of an error that was thrown.
C14_ThrowIsInternalError ==
    \A c \in Slots :
        (op[c] \in ControllerOps /\ pc[c] = "done" /\ SomethingThrew(c))
        => /\ ~res[c].success
           /\ res[c].error = INTERNAL_ERROR
           /\ res[c].message \in FaultMessages \cup {DuplicateKey}

\* C15 (as claimed): for create, get-by-id, update and delete of every
\* entity, a result whose error is INTERNAL_ERROR is answered with 500, a
\* NOT_FOUND result with 404 and an ALREADY_EXISTS result with 409.
C15_StatusMapping ==
    \A c \in Slots :
        ( /\ op[c] \in CreateOps \cup GetOps \cup UpdateOps \cup DeleteOps
          /\ pc[c] = "done"
          /\ ~res[c].success )
        => LET error == res[c].error
               answered == status(op[c], res[c])
           IN /\ error = INTERNAL_ERROR => answered = INTERNAL_SERVER_ERROR
              /\ error \in {EVENT_NOT_FOUND, PROPERTY_NOT_FOUND,
                            TRACKING_PLAN_NOT_FOUND} => answered = NOT_FOUND
              /\ error \in {EVENT_ALREADY_EXISTS, PROPERTY_ALREADY_EXISTS,
                            TRACKING_PLAN_ALREADY_EXISTS} => answered = CONFLICT

\* C16: when no store call fails, createEvent (createProperty) of a key that
\* has a row returns EVENT_ALREADY_EXISTS (PROPERTY_ALREADY_EXISTS), issues
\* no insert and leaves the store as it was; for a key without a row it
\* issues one insert, the table gains exactly one row, which carries the
\* submitted name, type and description, and that row is returned with
\* success=true.
C16_GuardedCreate ==
    \A c \in Slots :
        (op[c] \in {"createEvent", "createProperty"} /\ pc[c] = "done"
            /\ ~StoreFailed)
        => LET K == TableOf(op[c])
               req == arg[c].data
               pre == hist[c].pre
           IN IF \E r \in pre[K] : r.name = req.name /\ r.type = req.type
              THEN /\ res[c] = Failure(AlreadyExistsOf(K))
                   /\ hist[c].writes = {}
                   /\ db = pre
              ELSE /\ res[c].success
                   /\ Cardinality(hist[c].writes) = 1
                   /\ \E row \in res[c].data :
                         /\ res[c].data = {row}
                         /\ row.name = req.name
                         /\ row.type = req.type
                         /\ row.description = req.description
                         /\ row \notin pre[K]
                         /\ db[K] = pre[K] \cup {row}
                   /\ \A T \in {"events", "properties", "tracking_plans"} \ {K} :
                         db[T] = pre[T]

\* C16 witness: createEvent has inserted a row for a name that was stored
\* under another type only.
C16_Witness ==
    /\ op[1] = "createEvent"
    /\ pc[1] = "done"
    /\ res[1].success
    /\ \E r \in hist[1].pre.events :
          r.name = arg[1].data.name /\ r.type # arg[1].data.type
    /\ Cardinality(db.events) = Cardinality(hist[1].pre.events) + 1

\* the key row e would hold after the update request req
ResultingKey(req, e) ==
    [name |-> IF Supplied(req, "name") THEN req.name ELSE e.name,
     type |-> IF Supplied(req, "type") THEN req.type ELSE e.type]

\* updateEvent / updateProperty call c moves its row onto the key of
\* another row stored when the call began
MovesOntoOther(c) ==
    /\ op[c] \in {"updateEvent", "updateProperty"}
    /\ \E e \in hist[c].pre[TableOf(op[c])] :
          /\ e.id = arg[c].id
          /\ ResultingKey(arg[c].data, e) # [name |-> e.name, type |-> e.type]
          /\ \E x \in hist[c].pre[TableOf(op[c])] :
                /\ x.id # e.id
                /\ [name |-> x.name, type |-> x.type]
                       = ResultingKey(arg[c].data, e)

\* C17 (as claimed): when no store call fails, an updateEvent
\* (updateProperty) whose resulting key differs from the row's key and is
\* held by another row returns EVENT_ALREADY_EXISTS
\* (PROPERTY_ALREADY_EXISTS), does not call repository.update and leaves
\* the store as it was, whether name, type or both are supplied.
C17_UpdateCollision ==
    \A c \in Slots :
        (MovesOntoOther(c) /\ pc[c] = "done" /\ ~StoreFailed)
        => /\ res[c] = Failure(AlreadyExistsOf(TableOf(op[c])))
           /\ hist[c].writes = {}
           /\ db = hist[c].pre

\* updateEvent / updateProperty call c leaves the key of its row as it is
KeepsOwnKey(c) ==
    /\ op[c] \in {"updateEvent", "updateProperty"}
    /\ \E e \in hist[c].pre[TableOf(op[c])] :
          /\ e.id = arg[c].id
          /\ ResultingKey(arg[c].data, e) = [name |-> e.name, type |-> e.type]

\* C18: when no store call fails, an updateEvent (updateProperty) whose
\* resulting key is the row's own key, so that the only row holding it is
\* the row being updated, does not return ALREADY_EXISTS: it calls
\* repository.update and returns the updated row.
C18_NoSelfCollision ==
    \A c \in Slots :
        (KeepsOwnKey(c) /\ pc[c] = "done" /\ ~StoreFailed)
        => /\ res[c].error # AlreadyExistsOf(TableOf(op[c]))
           /\ \E w \in hist[c].writes : w.method = "update" /\ w.ok
           /\ res[c].success
           /\ \E e \in hist[c].pre[TableOf(op[c])] :
                 /\ e.id = arg[c].id
                 /\ res[c].data = {UpdatedRow(e, arg[c].data)}

\* C18 witness: an update that supplies both the name and the type its row
\* already has, has returned.
C18_Witness ==
    /\ KeepsOwnKey(1)
    /\ pc[1] = "done"
    /\ DOMAIN arg[1].data = {"name", "type"}
    /\ ~StoreFailed

\* C19: after a successful updateTrackingPlan the plan's row holds, for each
\* of name, description and events, the supplied value when the request
\* supplies the field (a supplied events list as a whole) and the value
\* stored before otherwise; the row is the one returned, and no other plan
\* row changes.
C19_PartialUpdate ==
    \A c \in Slots :
        (op[c] = "updateTrackingPlan" /\ pc[c] = "done" /\ res[c].success)
        => \E old \in hist[c].pre.tracking_plans :
              \E new \in db.tracking_plans :
                 /\ old.id = arg[c].id
                 /\ new.id = arg[c].id
                 /\ \A f \in {"name", "description", "events"} :
                       new[f] = IF f \in DOMAIN arg[c].data
                                THEN arg[c].data[f] ELSE old[f]
                 /\ res[c].data = {new}
                 /\ db.tracking_plans \ {new}
                        = hist[c].pre.tracking_plans \ {old}

\* C19 witness: an update that supplies a description and a non-empty
\* events list, and no name, has succeeded on a plan that stored another
\* events list.
C19_Witness ==
    /\ op[1] = "updateTrackingPlan"
    /\ pc[1] = "done"
    /\ res[1].success
    /\ DOMAIN arg[1].data = {"description", "events"}
    /\ arg[1].data.events # <<>>
    /\ \E old \in hist[1].pre.tracking_plans :
          /\ old.id = arg[1].id
          /\ old.events # <<>>
          /\ old.events # arg[1].data.events

\* C20: an updateTrackingPlan of an id without a row does nothing but its
\* findById: it never reaches the reconciliation, the name lookup or
\* trackingPlanRepository.update, starts no resolver, issues no write,
\* leaves the store as it was, and returns TRACKING_PLAN_NOT_FOUND.
C20_UpdateNotFound ==
    \A c \in Slots :
        ( /\ op[c] = "updateTrackingPlan"
          /\ \A r \in hist[c].pre.tracking_plans : r.id # arg[c].id )
        => /\ pc[c] \in {"find", "done"}
           /\ task[c] = NoTasks
           /\ hist[c].writes = {}
           /\ db = hist[c].pre
           /\ pc[c] = "done" => res[c] = Failure(TRACKING_PLAN_NOT_FOUND)

\* C20 witness: such an update, whose request supplies a new events list
\* with an event the store does not hold, has returned.
C20_Witness ==
    /\ op[1] = "updateTrackingPlan"
    /\ pc[1] = "done"
    /\ \A r \in hist[1].pre.tracking_plans : r.id # arg[1].id
    /\ "events" \in DOMAIN arg[1].data
    /\ \E i \in 1..Len(arg[1].data.events) :
          \A r \in db.events : r.name # arg[1].data.events[i].name

\* the table a list method reads
ListedTable(o) ==
    IF o = "getEvents" THEN "events"
    ELSE IF o = "getProperties" THEN "properties"
    ELSE "tracking_plans"

\* C21: when no store call fails, a list call answers with the total number
\* of matching rows, totalPages = ceil(total / limit), the page and limit it
\* was given (1 and 10 when absent), and exactly the rows at positions
\* (page-1)*limit .. (page-1)*limit + limit - 1 of the latest-first order:
\* min(limit, max(0, total - (page-1)*limit)) items.
C21_Pagination ==
    \A c \in Slots :
        (op[c] \in ListOps /\ pc[c] = "done" /\ ~StoreFailed)
        => LET params == arg[c].data
               rows == {r \in db[ListedTable(op[c])] :
                           "type" \in DOMAIN params => r.type = params.type}
               page == IF "page" \in DOMAIN params THEN params.page ELSE 1
               limit == IF "limit" \in DOMAIN params THEN params.limit ELSE 10
               total == Cardinality(rows)
               offset == (page - 1) * limit
               rest == IF total > offset THEN total - offset ELSE 0
           IN /\ res[c].success
              /\ \E resp \in res[c].data :
                    /\ res[c].data = {resp}
                    /\ resp.pagination.total = total
                    /\ resp.pagination.page = page
                    /\ resp.pagination.limit = limit
                    /\ resp.pagination.totalPages * limit >= total
                    /\ (resp.pagination.totalPages - 1) * limit < total
                    /\ Len(resp.data) = IF limit < rest THEN limit ELSE rest
                    /\ \A k \in 1..Len(resp.data) :
                          /\ resp.data[k] \in rows
                          /\ Cardinality({r \in rows : r.id > resp.data[k].id})
                                 = offset + k - 1

\* C21 witness: getEvents with page=2, limit=1 over three events has
\* answered one item, total=3, totalPages=3.
C21_Witness ==
    /\ op[1] = "getEvents"
    /\ pc[1] = "done"
    /\ arg[1].data = [page |-> 2, limit |-> 1]
    /\ Cardinality(db.events) = 3
    /\ \E resp \in res[1].data :
          /\ Len(resp.data) = 1
          /\ resp.pagination.total = 3
          /\ resp.pagination.totalPages = 3

\* the rows of table tbl stored under the key (name, type)
Keyed(tbl, name, type) == {r \in tbl : r.name = name /\ r.type = type}

\* in store d, the key (name, type) of table tbl of call c resolves to one
\* row with the given description, created by the call when it was absent
ResolvesTo(c, K, name, type, description) ==
    /\ Cardinality(Keyed(db[K], name, type)) = 1
    /\ \A r \in Keyed(db[K], name, type) : r.description = description
    /\ Keyed(hist[c].pre[K], name, type) = {}
       => \E w \in Inserts(c) :
             w.ok /\ w.table = K /\ w.name = name /\ w.type = type

\* C22: when processTrackingPlanEvents returns success, with no other call
\* interleaved, every embedded event has exactly one event row under
\* (event.name, "track") and that row has the embedded description, and
\* every embedded property has exactly one property row under
\* (property.name, property.type) with the embedded description; a row that
\* was absent before the call was inserted by the call.
C22_ResolvesToOneRow ==
    \A c \in Slots :
        (op[c] = "processTrackingPlanEvents" /\ pc[c] = "done" /\ res[c].success)
        => LET evs == arg[c].data.events
           IN \A i \in 1..Len(evs) :
                 /\ ResolvesTo(c, "events", evs[i].name, "track",
                               evs[i].description)
                 /\ \A j \in 1..Len(evs[i].properties) :
                       LET property == evs[i].properties[j]
                       IN ResolvesTo(c, "properties", property.name,
                                     property.type, property.description)

\* C22 witness: a reconciliation has succeeded that found the row of one
\* entity and inserted an event row and a property row.
C22_Witness ==
    /\ op[1] = "processTrackingPlanEvents"
    /\ pc[1] = "done"
    /\ res[1].success
    /\ \E w \in Inserts(1) : w.ok /\ w.table = "events"
    /\ \E w \in Inserts(1) : w.ok /\ w.table = "properties"
    /\ \E i \in 1..Len(arg[1].data.events) :
          Keyed(hist[1].pre.events, arg[1].data.events[i].name, "track") # {}

\* the writes call c issued for the key (name, type) of table K
KeyWrites(c, K, name, type) ==
    {w \in hist[c].writes : w.table = K /\ w.name = name /\ w.type = type}

\* call c lost the race for a key: the store refused its insert of a key
\* that call k had inserted after both had looked it up
LostRace(c, k, w) ==
    /\ c # k
    /\ w \in Inserts(c)
    /\ ~w.ok
    /\ \E v \in KeyWrites(k, w.table, w.name, w.type) : v.ok

\* C23 (as claimed): when two calls have looked up the same key, found no
\* row and both inserted it, one insert was accepted and one row holds the
\* key, the losing call issued its insert once, and the losing call ends
\* with the INTERNAL_ERROR envelope that carries the duplicate-key message.
C23_RaceLoserInternalError ==
    \A c, k \in Slots :
        \A w \in hist[c].writes :
            (LostRace(c, k, w) /\ pc[c] = "done")
            => /\ Cardinality(Keyed(db[w.table], w.name, w.type)) = 1
               /\ KeyWrites(c, w.table, w.name, w.type) = {w}
               /\ res[c] = Envelope(FALSE, {}, INTERNAL_ERROR, DuplicateKey)

\* the part of C23 that holds: one row, one accepted insert, no retry
C23_OneRowNoRetry ==
    \A c, k \in Slots :
        \A w \in hist[c].writes :
            LostRace(c, k, w)
            => /\ Cardinality(Keyed(db[w.table], w.name, w.type)) = 1
               /\ KeyWrites(c, w.table, w.name, w.type) = {w}

\* C24 (as claimed): an updateTrackingPlan that is rejected for a name
\* collision or a description conflict has issued no store write: the plan
\* row, the events table and the properties table are as they were before
\* the call.
C24_RejectedUpdateWritesNothing ==
    \A c \in Slots :
        ( /\ op[c] = "updateTrackingPlan"
          /\ pc[c] = "done"
          /\ res[c].error \in {TRACKING_PLAN_ALREADY_EXISTS, EVENT_ALREADY_EXISTS,
                                PROPERTY_ALREADY_EXISTS} )
        => /\ hist[c].writes = {}
           /\ Tables(db) = Tables(hist[c].pre)

\* the rows of a table without the ids the store gave them
Content(tbl) ==
    {[name |-> r.name, type |-> r.type, description |-> r.description] :
        r \in tbl}

\* C25 (as claimed): for every store and every list, once everything the
\* Promise.all version of processTrackingPlanEvents started has finished,
\* it has returned the envelope the sequential version returns on the same
\* store and list, and the events and properties tables hold the rows the
\* sequential version leaves (up to the ids of the rows inserted).
C25_SequentialEquivalent ==
    ( /\ op[1] = "processTrackingPlanEvents"
      /\ pc[1] = "done"
      /\ ~Pending(1)
      /\ op[2] = "idle" )
    => LET seq == processTrackingPlanEventsSequential(hist[1].pre,
                                                      arg[1].data.events)
       IN /\ res[1] = seq.res
          /\ Content(db.events) = Content(seq.db.events)
          /\ Content(db.properties) = Content(seq.db.properties)

\* call c has started a reconciliation and every promise of it has settled
Reconciled(c) ==
    /\ op[c] \in TrackingPlanCalls
    /\ task[c] # NoTasks
    /\ pc[c] = "done"
    /\ ~Pending(c)

\* C26: a reconciliation looks events up and creates them under type
\* "track" only, and properties under their own declared type: every event
\* insert has type "track" and every property insert the name and type of
\* an embedded property; event rows of other types are left alone; an
\* EVENT_ALREADY_EXISTS result comes, when no store call fails, from a row
\* of type "track" whose description differs; and then an embedded event
\* without a (name, "track") row before the call has one afterwards, whatever
\* rows of other types hold the name, and so has an embedded property
\* without a (name, type) row whose event was resolved.
C26_TrackOnly ==
    \A c \in Slots :
        op[c] \in TrackingPlanCalls /\ Supplied(arg[c].data, "events")
        => LET evs == arg[c].data.events
               pre == hist[c].pre
           IN /\ \A w \in Inserts(c) :
                    IF w.table = "events"
                    THEN w.type = "track"
                         /\ \E i \in 1..Len(evs) : evs[i].name = w.name
                    ELSE \E i \in 1..Len(evs) :
                            \E j \in 1..Len(evs[i].properties) :
                               /\ evs[i].properties[j].name = w.name
                               /\ evs[i].properties[j].type = w.type
              /\ {r \in db.events : r.type # "track"}
                    = {r \in pre.events : r.type # "track"}
              /\ (pc[c] = "done" /\ res[c].error = EVENT_ALREADY_EXISTS
                     /\ ~StoreFailed)
                 => \E i \in 1..Len(evs) :
                       \E r \in Keyed(db.events, evs[i].name, "track") :
                          r.description # evs[i].description
              /\ (Reconciled(c) /\ ~StoreFailed)
                 => \A i \in 1..Len(evs) :
                       /\ Keyed(db.events, evs[i].name, "track") # {}
                       /\ task[c][<<i, 0>>].st = "done"
                          => \A j \in 1..Len(evs[i].properties) :
                                Keyed(db.properties, evs[i].properties[j].name,
                                      evs[i].properties[j].type) # {}

\* C26 witness: a createTrackingPlan has succeeded whose event name was
\* stored under type "identify" only and whose property name was stored
\* under another type only; both rows were inserted.
C26_Witness ==
    /\ op[1] = "createTrackingPlan"
    /\ pc[1] = "done"
    /\ res[1].success
    /\ \E i \in 1..Len(arg[1].data.events) :
          LET event == arg[1].data.events[i]
          IN /\ Keyed(hist[1].pre.events, event.name, "track") = {}
             /\ Keyed(hist[1].pre.events, event.name, "identify") # {}
             /\ Keyed(db.events, event.name, "track") # {}
             /\ \E j \in 1..Len(event.properties) :
                   /\ event.properties[j].type = "number"
                   /\ Keyed(hist[1].pre.properties, event.properties[j].name,
                            "string") # {}
                   /\ Keyed(db.properties, event.properties[j].name,
                            "number") # {}

\* C27 (as claimed): the message of a description conflict carries the
\* whole name of an embedded entity: "Event 'n' already exists with a
\* different description" for an embedded event named n, "Property 'n' ..."
\* for an embedded property named n, also when n contains ':'.
C27_MessageCarriesName ==
    \A c \in Slots :
        ( /\ op[c] \in TrackingPlanCalls
          /\ pc[c] = "done"
          /\ res[c].message # <<>> )
        => LET evs == arg[c].data.events
           IN /\ res[c].error = EVENT_ALREADY_EXISTS
                 => \E i \in 1..Len(evs) :
                       res[c].message = <<"Event '">> \o evs[i].name
                                            \o DifferentDescription
              /\ res[c].error = PROPERTY_ALREADY_EXISTS
                 => \E i \in 1..Len(evs) :
                       \E j \in 1..Len(evs[i].properties) :
                          res[c].message
                              = <<"Property '">> \o evs[i].properties[j].name
                                    \o DifferentDescription

\* C28 (as claimed): a createTrackingPlan or updateTrackingPlan returns
\* EVENT_ALREADY_EXISTS (PROPERTY_ALREADY_EXISTS) only when the row stored
\* for an embedded event (property) has another description than the
\* embedded one, whatever the store failures and their messages.
C28_ConflictOnlyWhenDescriptionsDiffer ==
    \A c \in Slots :
        (op[c] \in TrackingPlanCalls /\ pc[c] = "done")
        => LET evs == arg[c].data.events
           IN /\ res[c].error = EVENT_ALREADY_EXISTS
                 => \E i \in 1..Len(evs) :
                       \E r \in Keyed(db.events, evs[i].name, "track") :
                          r.description # evs[i].description
              /\ res[c].error = PROPERTY_ALREADY_EXISTS
                 => \E i \in 1..Len(evs) :
                       \E j \in 1..Len(evs[i].properties) :
                          LET property == evs[i].properties[j]
                          IN \E r \in Keyed(db.properties, property.name,
                                            property.type) :
                                r.description # property.description

\* C29 (as claimed): once createTrackingPlan or updateTrackingPlan has
\* returned, no lookup or insert of the call's fan-out is still awaiting
\* the store.
C29_NothingPendingAfterReturn ==
    \A c \in Slots :
        (op[c] \in TrackingPlanCalls /\ pc[c] = "done") => ~Pending(c)

\* the write of call c to its table has been issued
Wrote(c) ==
    \E w \in hist[c].writes :
        w.table = TableOf(op[c]) /\ w.method \in {"update", "delete"}

\* C30: when the row of a delete or an update was removed after the call's
\* findById, so that its repository.delete returns false or its
\* repository.update returns null, the call returns the entity's NOT_FOUND
\* error; and of two deletes of one id that both reached repository.delete,
\* exactly one reports success and the other NOT_FOUND.
C30_RemovedMeanwhile ==
    /\ [][\A c \in Slots :
            ( /\ op[c] \in DeleteOps \cup UpdateOps
              /\ pc[c] \in {"delete", "update"}
              /\ pc'[c] = "done"
              /\ \A r \in db[TableOf(op[c])] : r.id # arg[c].id )
            => res'[c] = Failure(NotFoundOf(TableOf(op[c])))]_vars
    /\ [](\A c, k \in Slots :
            ( /\ c # k
              /\ op[c] \in DeleteOps /\ op[k] = op[c] /\ arg[k].id = arg[c].id
              /\ pc[c] = "done" /\ pc[k] = "done"
              /\ Wrote(c) /\ Wrote(k) )
            => \/ res[c].success /\ res[k] = Failure(NotFoundOf(TableOf(op[c])))
               \/ res[k].success /\ res[c] = Failure(NotFoundOf(TableOf(op[c]))))

\* C30 witness: two deleteEvent calls of one id both found the row and both
\* called repository.delete; one has reported success and the other
\* EVENT_NOT_FOUND.
C30_Witness ==
    /\ op[1] = "deleteEvent" /\ op[2] = "deleteEvent"
    /\ arg[1].id = arg[2].id
    /\ pc[1] = "done" /\ pc[2] = "done"
    /\ Wrote(1) /\ Wrote(2)
    /\ res[1].success
    /\ res[2].error = EVENT_NOT_FOUND

\* an update found its row, a delete removed it, and the update has
\* returned its NOT_FOUND error
C30_UpdateLost ==
    \E c, k \in Slots :
        /\ op[c] \in UpdateOps /\ pc[c] = "done" /\ Wrote(c)
        /\ res[c] = Failure(NotFoundOf(TableOf(op[c])))
        /\ op[k] \in DeleteOps /\ res[k].success

====
